---- MODULE Spec2Model ----
(***************************************************************************)
(* A model of the document-search backend: the chunker                     *)
(* (document_processor/processor.py), the vector index store               *)
(* (search/engine.py) and the request wiring (api/routes.py); and of the   *)
(* port scanner (port_scanner.py).                                         *)
(***************************************************************************)
EXTENDS Integers, Sequences, FiniteSets, TLC

(***************************************************************************)
(* Bounds of the model.                                                    *)
(***************************************************************************)
\* longest text handed to _chunk_text
MaxTextLen == 4
\* largest chunk_size a DocumentProcessor is configured with
MaxChunkSize == 4
\* cap on the length of the chunks list (the list is unbounded in the code)
MaxChunks == 6
\* the dimension of the embeddings (config.EMBEDDING_DIMENSION, scaled down)
EMBEDDING_DIMENSION == 2
\* most chunks in one add_documents batch
MaxBatch == 2
\* most vectors in the index of the engine under test
MaxRecords == 3
\* most vectors in the index of the engine that is saved and loaded
MaxPersisted == 2
\* most chunks of one ingested document
MaxDocChunks == 3
\* most vectors in the index of the engine that ingests whole documents
MaxIngested == 5
\* number of requests the server handles
MaxRequests == 2
\* most chunks of one uploaded document
MaxUploadChunks == 2
\* widest chunk where break points are searched, and the number of
\* characters of the text from the middle of the first window on
MaxWindowSize == 9
MaxWindowFree == 6
\* longest text chunked under an unchecked configuration
MaxConfigTextLen == 2
\* highest port scanned (65535 in the code) and worker threads of the
\* executor (100 in the code)
MaxPort == 3
MaxWorkers == 2
\* config.DEFAULT_TOP_K
DEFAULT_TOP_K == 5
\* config.CHUNK_SIZE and config.CHUNK_OVERLAP, the values when the environment
\* sets neither
CHUNK_SIZE == 1000
CHUNK_OVERLAP == 200

VARIABLES
    \* ---- DocumentProcessor._chunk_text ----
    text,           \* the argument of _chunk_text, a sequence of characters
    chunk_size,     \* self.chunk_size
    chunk_overlap,  \* self.chunk_overlap
    chunks,         \* the local list `chunks`
    start,          \* the local cursor `start`
    spans,          \* history: the <<start, end>> of every chunk appended
    cpc,            \* the call: "call", "loop", "advance", "done", "returned"
    \* ---- DocumentProcessor.process_document ----
    documents       \* the local list `documents`

chunkVars ==
    <<text, chunk_size, chunk_overlap, chunks, start, spans, cpc, documents>>

\* ---- one SearchEngine driven call by call (search/engine.py) ----
VARIABLES
    se,             \* the SearchEngine: embedding_dim, index, documents,
                    \* doc_ids_to_indices
    disk_index,     \* the file at index_path: <<>> when absent, else <<blob>>
    disk_docs,      \* the file at docs_path: <<>> when absent, else <<blob>>
    call            \* the last call made on se: its name and the error raised

storeVars == <<se, disk_index, disk_docs, call>>

\* ---- the requests served by api/routes.py ----
VARIABLES
    reqs,           \* per request: its kind, where it is, its arguments
    engines,        \* the SearchEngine objects built by get_search_engine
    wrote,          \* history: the request whose save wrote each file
    log             \* the final messages logged, each with its request

serverVars == <<reqs, engines, wrote, log>>

VARIABLES
    \* ---- port_scanner.scan_ports ----
    futures,        \* per port: where its future is, and its result
    open_ports,     \* the local list `open_ports`
    attempts,       \* history: per port, the outcomes of its connect attempts
    spc             \* the main thread: "submit", "collect" or "finished"

scanVars == <<futures, open_ports, attempts, spc>>

vars == <<chunkVars, storeVars, serverVars, scanVars>>

(***************************************************************************)
(* Python helpers used by _chunk_text.  Python indices are 0-based, TLA+   *)
(* sequences 1-based: character i of a Python string is t[i + 1].          *)
(***************************************************************************)
Min(a, b) == IF a <= b THEN a ELSE b
Max(a, b) == IF a >= b THEN a ELSE b

NL == "\n"
Alphabet == {"a", " ", NL, "."}
Whitespace == {" ", NL}

\* all sequences over S of length 0..n
SeqsUpTo(S, n) == UNION {[1..k -> S] : k \in 0..n}

\* a slice bound as Python normalises it: negative counts from the end
SliceIndex(i, n) == IF i < 0 THEN Max(i + n, 0) ELSE Min(i, n)

\* t[lo:hi]
Slice(t, lo, hi) ==
    LET l == SliceIndex(lo, Len(t))
        h == SliceIndex(hi, Len(t))
    IN  IF l >= h THEN <<>> ELSE [k \in 1..(h - l) |-> t[l + k]]

\* t.rfind(sub, lo, hi): the highest index where sub lies within t[lo:hi], or -1
RFind(t, sub, lo, hi) ==
    LET l == SliceIndex(lo, Len(t))
        h == SliceIndex(hi, Len(t))
        hits == {i \in l..(h - Len(sub)) :
                    \A k \in 1..Len(sub) : t[i + k] = sub[k]}
    IN  IF hits = {} THEN -1 ELSE CHOOSE i \in hits : \A j \in hits : j <= i

\* t.strip()
Strip(t) ==
    LET keep == {i \in 1..Len(t) : t[i] \notin Whitespace}
    IN  IF keep = {} THEN <<>>
        ELSE LET lo == CHOOSE i \in keep : \A j \in keep : i <= j
                 hi == CHOOSE i \in keep : \A j \in keep : j <= i
             IN  [k \in 1..(hi - lo + 1) |-> t[lo + k - 1]]

\* the end of the chunk when a break is taken wherever it lies in the window
ChunkEndAnyBreak(t, s, size) ==
    LET end0 == Min(s + size, Len(t))
        paragraph_break == RFind(t, <<NL, NL>>, s, end0)
        line_break == RFind(t, <<NL>>, s, end0)
        sentence_end == RFind(t, <<".", " ">>, s, end0)
        space == RFind(t, <<" ">>, s, end0)
    IN  IF end0 < Len(t)
        THEN IF paragraph_break # -1 THEN paragraph_break + 2
             ELSE IF line_break # -1 THEN line_break + 1
             ELSE IF sentence_end # -1 THEN sentence_end + 2
             ELSE IF space # -1 THEN space + 1
             ELSE end0
        ELSE end0

(***************************************************************************)
(* The end of the chunk that starts at s (processor.py lines 173-195).     *)
(***************************************************************************)
ChunkEnd(t, s, size) ==
    LET end0 == Min(s + size, Len(t))
        half == s + (size \div 2)
        paragraph_break == RFind(t, <<NL, NL>>, s, end0)
        line_break == RFind(t, <<NL>>, s, end0)
        sentence_end == RFind(t, <<".", " ">>, s, end0)
        space == RFind(t, <<" ">>, s, end0)
    IN  IF end0 < Len(t)
        THEN IF paragraph_break # -1 /\ paragraph_break > half
             THEN paragraph_break + 2
             ELSE IF line_break # -1 /\ line_break > half
             THEN line_break + 1
             ELSE IF sentence_end # -1 /\ sentence_end > half
             THEN sentence_end + 2
             ELSE IF space # -1 /\ space > half
             THEN space + 1
             ELSE end0
        ELSE end0

\* start = end - self.chunk_overlap
NextStart(end, overlap) == end - overlap

\* the break test after the cursor moved: `if start >= end: break`
LoopBreaks(newStart, end) == newStart >= end

(***************************************************************************)
(* Data handed to the SearchEngine.  A document is a Python dict, here a   *)
(* function on its keys; a chunk's text is named by its document and its   *)
(* position in it.                                                         *)
(***************************************************************************)
DocIds == {<<"a">>, <<"b">>}
Requests == 1..MaxRequests

\* str(n) for 0 <= n <= 99, as Python formats an int into an f-string
Digit(n) == CASE n = 0 -> "0" [] n = 1 -> "1" [] n = 2 -> "2" [] n = 3 -> "3"
              [] n = 4 -> "4" [] n = 5 -> "5" [] n = 6 -> "6" [] n = 7 -> "7"
              [] n = 8 -> "8" [] n = 9 -> "9"
IntStr(n) == IF n < 10 THEN <<Digit(n)>> ELSE <<Digit(n \div 10), Digit(n % 10)>>

\* a vector of the store's dimension with leading coordinates x, y
Vec(x, y) == [i \in 1..EMBEDDING_DIMENSION |->
                 IF i = 1 THEN x ELSE IF i = 2 THEN y ELSE 0]

\* embeddings.py line 30: the embedding model, one fixed vector per text
Encode(t) == Vec(t[2], IF t[1] = <<"a">> THEN 0 ELSE 1)

\* process_document lines 68-79 and generate_embeddings lines 33-34: chunk c
\* of document d as add_documents receives it
MakeDoc(d, c) ==
    [text |-> <<d, c>>,
     metadata |-> [doc_id |-> d, chunk_id |-> c],
     embedding |-> Encode(<<d, c>>)]

\* the same dict without metadata['doc_id']
WithoutDocId(doc) ==
    [doc EXCEPT !.metadata = [chunk_id |-> doc.metadata.chunk_id]]

\* the same dict with an embedding one coordinate too long
WithLongEmbedding(doc) ==
    [doc EXCEPT !.embedding = Append(doc.embedding, 0)]

\* the batches add_documents is called with: n chunks of document d, all
\* well formed ("ok") or with the chunk at position bad (1-based) malformed
Batch(d, n, kind, bad) ==
    [i \in 1..n |->
        IF i # bad \/ kind = "ok" THEN MakeDoc(d, i - 1)
        ELSE IF kind = "no_doc_id" THEN WithoutDocId(MakeDoc(d, i - 1))
        ELSE WithLongEmbedding(MakeDoc(d, i - 1))]

BatchKinds == {"ok", "no_doc_id", "long_embedding"}

\* query vectors: two of the store's dimension, one too long
Queries == {Vec(0, 0), Vec(1, 1), Append(Vec(0, 0), 0)}
TopKs == {0, 1, 2, 10}

(***************************************************************************)
(* The faiss IndexFlatL2: its dimension d and its vectors xb, in the order *)
(* they were added.                                                        *)
(***************************************************************************)
IndexFlatL2(dim) == [d |-> dim, xb |-> <<>>]

RECURSIVE SumTo(_, _)
SumTo(f, n) == IF n = 0 THEN 0 ELSE f[n] + SumTo(f, n - 1)

\* the squared Euclidean distance of two vectors of equal length
L2Sqr(u, v) == SumTo([i \in 1..Len(u) |-> (u[i] - v[i]) * (u[i] - v[i])], Len(u))

\* the 0-based positions in S by increasing distance to q, ties by position
RECURSIVE Nearest(_, _, _, _)
Nearest(xb, q, S, k) ==
    IF k = 0 \/ S = {} THEN <<>>
    ELSE LET best == CHOOSE i \in S : \A j \in S :
                        \/ L2Sqr(xb[i + 1], q) < L2Sqr(xb[j + 1], q)
                        \/ L2Sqr(xb[i + 1], q) = L2Sqr(xb[j + 1], q) /\ i <= j
         IN  <<best>> \o Nearest(xb, q, S \ {best}, k - 1)

\* index.search(q, k): the labels row, padded with -1 when fewer than k vectors
IndexSearch(ix, q, k) ==
    LET found == Nearest(ix.xb, q, 0..(Len(ix.xb) - 1), k)
    IN  found \o [i \in 1..(k - Len(found)) |-> -1]

\* the raw distance taken as the score (lower is better)
RawDistanceScore(distance) == <<distance, 1>>

\* line 87: 1.0 / (1.0 + distance), kept as the fraction <<1, 1 + distance>>
Score(distance) == <<1, 1 + distance>>

\* a <= b for fractions with positive denominators
FracLeq(a, b) == a[1] * b[2] <= b[1] * a[2]

(***************************************************************************)
(* SearchEngine (search/engine.py).                                        *)
(***************************************************************************)
\* a Python dict as a function: d[k] = v
DictPut(d, k, v) == [x \in (DOMAIN d) \cup {k} |-> IF x = k THEN v ELSE d[x]]
EmptyDict == [x \in {} |-> 0]

\* line 58: f"{doc_id}_{chunk_id}"
UniqueId(doc_id, chunk_id) == doc_id \o <<"_">> \o IntStr(chunk_id)

\* lines 21-24 and 30: the engine with a fresh index
NewEngine(dim) ==
    [embedding_dim |-> dim,
     index |-> IndexFlatL2(dim),
     documents |-> <<>>,
     doc_ids_to_indices |-> EmptyDict]

\* a check that looks at the first vector of the batch only
EmbeddingsErrorFirstOnly(s, docs) ==
    IF "embedding" \notin DOMAIN docs[1] THEN "KeyError"
    ELSE IF Len(docs[1].embedding) # s.index.d THEN "AssertionError"
    ELSE ""

\* line 43 and the checks of index.add: "" when the batch's embeddings can be
\* added, else the error raised before anything is changed
EmbeddingsError(s, docs) ==
    IF \E i \in 1..Len(docs) : "embedding" \notin DOMAIN docs[i]
    THEN "KeyError"
    ELSE IF \E i \in 1..Len(docs) : Len(docs[i].embedding) # Len(docs[1].embedding)
    THEN "ValueError"
    ELSE IF Len(docs[1].embedding) # s.index.d
    THEN "AssertionError"
    ELSE ""

\* line 47: self.index.add(embeddings)
IndexAdd(s, docs) ==
    [s EXCEPT !.index.xb = @ \o [i \in 1..Len(docs) |-> docs[i].embedding]]

\* line 52: the document without its embedding
DocCopy(doc) == [k \in (DOMAIN doc) \ {"embedding"} |-> doc[k]]

\* lines 56-57 raise KeyError on a document without metadata, doc_id or chunk_id
HasIds(doc) ==
    /\ "metadata" \in DOMAIN doc
    /\ "doc_id" \in DOMAIN doc.metadata
    /\ "chunk_id" \in DOMAIN doc.metadata

\* a mapping that counts the batch from 1
MapDocFromOne(s, doc, start_idx, i) ==
    [s EXCEPT !.doc_ids_to_indices =
        DictPut(@, UniqueId(doc.metadata.doc_id, doc.metadata.chunk_id),
                start_idx + i)]

\* lines 56-59: the identity mapping after document i (1-based) of the batch
MapDoc(s, doc, start_idx, i) ==
    [s EXCEPT !.doc_ids_to_indices =
        DictPut(@, UniqueId(doc.metadata.doc_id, doc.metadata.chunk_id),
                start_idx + (i - 1))]

\* lines 50-59: the loop from document i of the batch on; it stops at the
\* first document whose ids are missing, after appending its copy
RECURSIVE StoreDocs(_, _, _, _)
StoreDocs(s, docs, start_idx, i) ==
    IF i > Len(docs) THEN [engine |-> s, error |-> ""]
    ELSE LET appended == [s EXCEPT !.documents = Append(@, DocCopy(docs[i]))]
         IN  IF HasIds(docs[i])
             THEN StoreDocs(MapDoc(appended, docs[i], start_idx, i),
                            docs, start_idx, i + 1)
             ELSE [engine |-> appended, error |-> "KeyError"]

\* add_documents, lines 39-59
AddDocuments(s, docs) ==
    IF docs = <<>> THEN [engine |-> s, error |-> ""]
    ELSE IF EmbeddingsError(s, docs) # ""
    THEN [engine |-> s, error |-> EmbeddingsError(s, docs)]
    ELSE StoreDocs(IndexAdd(s, docs), docs, Len(s.documents), 1)

\* line 87: doc['score'] = ... on the stored dict itself
SetScore(doc, sc) ==
    [k \in (DOMAIN doc) \cup {"score"} |-> IF k = "score" THEN sc ELSE doc[k]]

\* lines 82-88: the loop over the labels from position i on; IndexError at the
\* first label that is no position of self.documents
RECURSIVE Collect(_, _, _, _, _)
Collect(s, q, labels, i, acc) ==
    IF i > Len(labels) THEN [engine |-> s, results |-> acc, error |-> ""]
    ELSE IF labels[i] = -1 THEN Collect(s, q, labels, i + 1, acc)
    ELSE IF labels[i] >= Len(s.documents)
    THEN [engine |-> s, results |-> <<>>, error |-> "IndexError"]
    ELSE LET idx == labels[i]
             doc == SetScore(s.documents[idx + 1],
                             Score(L2Sqr(s.index.xb[idx + 1], q)))
             t == [s EXCEPT !.documents[idx + 1] = doc]
         IN  Collect(t, q, labels, i + 1, Append(acc, doc))

\* one neighbour fewer than asked for
ClampTopKShort(s, top_k) == Min(top_k, Len(s.documents)) - 1

\* the k handed to faiss, line 79
ClampTopK(s, top_k) == Min(top_k, Len(s.documents))

\* search without the early return of lines 72-73
SearchUnguarded(s, q, top_k) ==
    IF Len(q) # s.index.d \/ ClampTopK(s, top_k) <= 0
    THEN [engine |-> s, results |-> <<>>, error |-> "AssertionError"]
    ELSE Collect(s, q, IndexSearch(s.index, q, ClampTopK(s, top_k)), 1, <<>>)

\* search, lines 72-90
Search(s, q, top_k) ==
    IF Len(s.documents) = 0
    THEN [engine |-> s, results |-> <<>>, error |-> ""]
    ELSE IF Len(q) # s.index.d \/ ClampTopK(s, top_k) <= 0
    THEN [engine |-> s, results |-> <<>>, error |-> "AssertionError"]
    ELSE Collect(s, q, IndexSearch(s.index, q, ClampTopK(s, top_k)), 1, <<>>)

\* faiss.write_index, line 105: the blob at index_path
WriteIndex(s) == <<s.index>>

\* pickle.dump, lines 108-112: the blob at docs_path
DumpDocs(s) ==
    <<[documents |-> s.documents, doc_ids_to_indices |-> s.doc_ids_to_indices]>>

\* line 123: self.index = faiss.read_index(index_path)
ReadIndex(s, index_blob) == [s EXCEPT !.index = index_blob[1]]

\* a load that restores the documents and leaves the identity mapping
ReadDocsOnlyDocuments(s, docs_blob) ==
    [s EXCEPT !.documents = docs_blob[1].documents]

\* lines 126-129: pickle.load and the two assignments
ReadDocs(s, docs_blob) ==
    [s EXCEPT !.documents = docs_blob[1].documents,
              !.doc_ids_to_indices = docs_blob[1].doc_ids_to_indices]

\* load_index, lines 123-129
LoadIndex(s, index_blob, docs_blob) ==
    ReadDocs(ReadIndex(s, index_blob), docs_blob)

\* load_index called on whatever is at the two paths: faiss.read_index raises
\* when index_path is absent (line 123); open raises when docs_path is
\* absent (line 126), after line 123 has replaced self.index
LoadIndexOutcome(s, index_blob, docs_blob) ==
    IF index_blob = <<>>
    THEN [engine |-> s, error |-> "RuntimeError"]
    ELSE IF docs_blob = <<>>
    THEN [engine |-> ReadIndex(s, index_blob), error |-> "FileNotFoundError"]
    ELSE [engine |-> LoadIndex(s, index_blob, docs_blob), error |-> ""]

\* line 27: both paths given and both files there
BothExist(index_blob, docs_blob) == index_blob # <<>> /\ docs_blob # <<>>

\* __init__, lines 21-30: load when both files exist, else a fresh index
Construct(dim, index_blob, docs_blob) ==
    IF BothExist(index_blob, docs_blob)
    THEN LoadIndex(NewEngine(dim), index_blob, docs_blob)
    ELSE NewEngine(dim)

(***************************************************************************)
(* port_scanner.py.  A Python value is None, here <<>>, or an int n, here  *)
(* <<n>>.  A connect attempt returns an error number (0 when the port      *)
(* accepts) or raises socket.error.                                        *)
(***************************************************************************)
Ports == 1..MaxPort
None == <<>>

\* what sock.connect_ex does: return 0, return ECONNREFUSED (111) or
\* EAGAIN (11, the timeout), or raise
ConnectOutcomes == {<<"returned", 0>>, <<"returned", 111>>,
                    <<"returned", 11>>, <<"raised">>}

\* a probe that reports its port whatever connect_ex returned
ScanPortAlwaysOpen(port, outcome) == <<port>>

\* scan_port, lines 6-15: the port when connect_ex returned 0, else None
ScanPort(port, outcome) ==
    IF outcome[1] = "raised" THEN None
    ELSE IF outcome[2] = 0 THEN <<port>>
    ELSE None

\* `if port:` on a returned value
Truthy(v) == v # None /\ v # <<0>>

Future(state, result) == [state |-> state, result |-> result]

\* before scan_ports is called
ScanIdle ==
    /\ futures = [p \in Ports |-> Future("unsubmitted", None)]
    /\ open_ports = <<>>
    /\ attempts = [p \in Ports |-> <<>>]
    /\ spc = "finished"

(***************************************************************************)
(* One SearchEngine, driven call by call.                                  *)
(***************************************************************************)
Called(op, error) == [op |-> op, error |-> error]

\* the engine as routes.get_search_engine builds it when no file exists yet
StoreIdle ==
    /\ se = NewEngine(EMBEDDING_DIMENSION)
    /\ disk_index = <<>>
    /\ disk_docs = <<>>
    /\ call = Called("init", "")

\* no request has arrived
NoRequest ==
    [kind |-> "none", pc |-> "idle", doc_id |-> <<>>, n |-> 0, q |-> <<>>,
     labels |-> <<>>, saw |-> <<-1, -1>>, start_idx |-> -1]

ServerIdle ==
    /\ reqs = [r \in Requests |-> NoRequest]
    /\ engines = [e \in Requests |-> NewEngine(EMBEDDING_DIMENSION)]
    /\ wrote = <<-1, -1>>
    /\ log = {}

ChunkIdle ==
    /\ text = <<>>
    /\ chunk_size = 1
    /\ chunk_overlap = 0
    /\ chunks = <<>>
    /\ start = 0
    /\ spans = <<>>
    /\ cpc = "done"
    /\ documents = <<>>

InitStore == StoreIdle /\ ChunkIdle /\ ServerIdle /\ ScanIdle

\* se.add_documents(docs), the index holding at most cap vectors afterwards
AddDocumentsUpTo(cap, sizes, kinds) ==
    \E d \in DocIds, n \in sizes, kind \in kinds, bad \in 1..cap :
        /\ bad <= n \/ (n = 0 /\ bad = 1)
        /\ kind = "ok" => bad = 1
        /\ Len(se.index.xb) + n <= cap
        /\ Len(se.documents) + n <= cap
        /\ LET r == AddDocuments(se, Batch(d, n, kind, bad))
           IN  /\ se' = r.engine
               /\ call' = Called("add_documents", r.error)
        /\ UNCHANGED <<disk_index, disk_docs>>
        /\ UNCHANGED <<chunkVars, serverVars, scanVars>>

AddDocumentsCall == AddDocumentsUpTo(MaxRecords, 0..MaxBatch, BatchKinds)

\* se.search(q, top_k)
SearchCall ==
    \E q \in Queries, top_k \in TopKs :
        /\ LET r == Search(se, q, top_k)
           IN  /\ se' = r.engine
               /\ call' = Called("search", r.error)
        /\ UNCHANGED <<disk_index, disk_docs>>
        /\ UNCHANGED <<chunkVars, serverVars, scanVars>>

NextStore ==
    \/ AddDocumentsCall
    \/ SearchCall

SpecStore == InitStore /\ [][NextStore]_vars

(***************************************************************************)
(* The same engine with its two files: save_index, load_index and a new    *)
(* engine built from the files.                                            *)
(***************************************************************************)
AddDocumentsPersist ==
    AddDocumentsUpTo(MaxPersisted, 0..MaxPersisted, BatchKinds)

\* se.save_index(index_path, docs_path), lines 105-112
SaveIndexCall ==
    /\ disk_index' = WriteIndex(se)
    /\ disk_docs' = DumpDocs(se)
    /\ call' = Called("save_index", "")
    /\ UNCHANGED se
    /\ UNCHANGED <<chunkVars, serverVars, scanVars>>

\* se.load_index(index_path, docs_path)
LoadIndexCall ==
    /\ LET r == LoadIndexOutcome(se, disk_index, disk_docs)
       IN  /\ se' = r.engine
           /\ call' = Called("load_index", r.error)
    /\ UNCHANGED <<disk_index, disk_docs>>
    /\ UNCHANGED <<chunkVars, serverVars, scanVars>>

\* se = SearchEngine(embedding_dim, index_path, docs_path): a new engine
ConstructCall ==
    /\ se' = Construct(EMBEDDING_DIMENSION, disk_index, disk_docs)
    /\ call' = Called("init", "")
    /\ UNCHANGED <<disk_index, disk_docs>>
    /\ UNCHANGED <<chunkVars, serverVars, scanVars>>

NextPersist ==
    \/ AddDocumentsPersist
    \/ SearchCall
    \/ SaveIndexCall
    \/ LoadIndexCall
    \/ ConstructCall

SpecPersist == InitStore /\ [][NextPersist]_vars

(***************************************************************************)
(* The engine and its two files when a file may be missing: save_index can *)
(* raise after writing the index file, and load_index is called whatever   *)
(* is at the two paths.                                                    *)
(***************************************************************************)
AddDocumentsBootstrap ==
    AddDocumentsUpTo(MaxPersisted, 1..MaxPersisted, {"ok"})

\* save_index raising at lines 108-112, after line 105 wrote the index file
SaveIndexFails ==
    /\ disk_index' = WriteIndex(se)
    /\ call' = Called("save_index", "OSError")
    /\ UNCHANGED <<se, disk_docs>>
    /\ UNCHANGED <<chunkVars, serverVars, scanVars>>

NextBootstrap ==
    \/ AddDocumentsBootstrap
    \/ SaveIndexCall
    \/ SaveIndexFails
    \/ LoadIndexCall
    \/ ConstructCall

SpecBootstrap == InitStore /\ [][NextBootstrap]_vars

(***************************************************************************)
(* The same engine fed whole documents as the ingestion pipeline produces  *)
(* them (every chunk well formed), and searched.                           *)
(***************************************************************************)
IngestCall == AddDocumentsUpTo(MaxIngested, 1..MaxDocChunks, {"ok"})

NextIngest ==
    \/ IngestCall
    \/ SearchCall

SpecIngest == InitStore /\ [][NextIngest]_vars

(***************************************************************************)
(* list_documents (routes.py lines 156-181) on the engine's record list.   *)
(***************************************************************************)
\* the values of the query parameter limit (1..1000, 100 when not given)
Limits == {1, 2, 100, 1000}

\* lines 166-176 for one record: a new row for a doc_id not seen yet (the
\* row's title, file_type, source and dates are those of the document, here
\* its doc_id), and one more chunk on the row of its doc_id
CountDoc(unique_docs, doc) ==
    LET doc_id == doc.metadata.doc_id
        seen == \E k \in 1..Len(unique_docs) : unique_docs[k].doc_id = doc_id
        rows == IF seen THEN unique_docs
                ELSE Append(unique_docs, [doc_id |-> doc_id, chunks |-> 0])
    IN  [k \in 1..Len(rows) |->
            IF rows[k].doc_id = doc_id
            THEN [rows[k] EXCEPT !.chunks = @ + 1]
            ELSE rows[k]]

\* lines 165-176: the loop over the records from position i on
RECURSIVE UniqueDocs(_, _, _)
UniqueDocs(docs, i, unique_docs) ==
    IF i > Len(docs) THEN unique_docs
    ELSE UniqueDocs(docs, i + 1, CountDoc(unique_docs, docs[i]))

\* lines 163-178: list(unique_docs.values()), rows in order of first record
ListDocuments(s, limit) == UniqueDocs(Slice(s.documents, 0, limit), 1, <<>>)

(***************************************************************************)
(* The server (api/routes.py): every request gets the SearchEngine that    *)
(* get_search_engine builds for it; an upload's background task and the    *)
(* other requests run concurrently and share the two files.                *)
(***************************************************************************)
\* one SearchEngine object shared by all requests
SharedSearchEngine(r) == 1

\* lines 50-55: get_search_engine returns a new SearchEngine on every call;
\* the object built for request r is engines[r]
GetSearchEngine(r) == r

\* the store a previous run of the server left in the two files
SavedBefore == AddDocuments(NewEngine(EMBEDDING_DIMENSION),
                            Batch(<<"a">>, 1, "ok", 1)).engine

ServerQueries == {Vec(0, 0), Vec(1, 1)}

InitServer ==
    /\ ChunkIdle
    /\ ScanIdle
    /\ se = NewEngine(EMBEDDING_DIMENSION)
    /\ call = Called("init", "")
    /\ reqs = [r \in Requests |-> NoRequest]
    /\ engines = [e \in Requests |-> NewEngine(EMBEDDING_DIMENSION)]
    /\ log = {}
    /\ \/ disk_index = <<>> /\ disk_docs = <<>> /\ wrote = <<-1, -1>>
       \/ /\ disk_index = WriteIndex(SavedBefore)
          /\ disk_docs = DumpDocs(SavedBefore)
          /\ wrote = <<0, 0>>

ServerFrame == UNCHANGED <<chunkVars, se, call, scanVars>>

At(r, pc) == reqs[r].pc = pc
Goto(r, pc) == reqs' = [reqs EXCEPT ![r].pc = pc]

\* where a request goes once its engine is built
AfterOpen(r) == IF reqs[r].kind = "upload" THEN "task" ELSE "search"

\* a POST /upload of n chunks of document d, or a POST /search
Arrive ==
    \E r \in Requests :
        /\ At(r, "idle")
        /\ \A o \in Requests : o < r => ~At(o, "idle")
        /\ \/ \E d \in DocIds, n \in 1..MaxUploadChunks :
                 reqs' = [reqs EXCEPT ![r] =
                     [NoRequest EXCEPT !.kind = "upload", !.pc = "open",
                                       !.doc_id = d, !.n = n]]
           \/ \E q \in ServerQueries :
                 reqs' = [reqs EXCEPT ![r] =
                     [NoRequest EXCEPT !.kind = "search", !.pc = "open",
                                       !.q = q]]
        /\ UNCHANGED <<engines, wrote, log, disk_index, disk_docs>>
        /\ ServerFrame

\* get_search_engine and __init__ up to line 123: a fresh engine, or, when
\* both files exist, the index read from index_path
OpenEngine ==
    \E r \in Requests :
        /\ At(r, "open")
        /\ IF BothExist(disk_index, disk_docs)
           THEN /\ engines' = [engines EXCEPT ![GetSearchEngine(r)] =
                       ReadIndex(NewEngine(EMBEDDING_DIMENSION), disk_index)]
                /\ reqs' = [reqs EXCEPT ![r].pc = "load_docs",
                                        ![r].saw = <<wrote[1], -1>>]
           ELSE /\ engines' = [engines EXCEPT ![GetSearchEngine(r)] =
                       NewEngine(EMBEDDING_DIMENSION)]
                /\ Goto(r, AfterOpen(r))
        /\ UNCHANGED <<wrote, log, disk_index, disk_docs>>
        /\ ServerFrame

\* load_index lines 126-129: the documents read from docs_path
LoadDocs ==
    \E r \in Requests :
        /\ At(r, "load_docs")
        /\ engines' = [engines EXCEPT ![GetSearchEngine(r)] =
                          ReadDocs(@, disk_docs)]
        /\ reqs' = [reqs EXCEPT ![r].pc = AfterOpen(r),
                                ![r].saw = <<@[1], wrote[2]>>]
        /\ UNCHANGED <<wrote, log, disk_index, disk_docs>>
        /\ ServerFrame

\* process_document_task lines 65-70: chunking and embedding succeed, or
\* raise and the error is logged (line 80)
TaskProcess ==
    \E r \in Requests, ok \in BOOLEAN :
        /\ At(r, "task")
        /\ IF ok THEN Goto(r, "add_index") /\ UNCHANGED log
           ELSE Goto(r, "failed") /\ log' = log \cup {<<"error", r>>}
        /\ UNCHANGED <<engines, wrote, disk_index, disk_docs>>
        /\ ServerFrame

\* add_documents lines 39-47 within the task
TaskAddIndex ==
    \E r \in Requests :
        /\ At(r, "add_index")
        /\ LET e == GetSearchEngine(r)
               docs == Batch(reqs[r].doc_id, reqs[r].n, "ok", 1)
           IN  IF EmbeddingsError(engines[e], docs) # ""
               THEN /\ Goto(r, "failed")
                    /\ log' = log \cup {<<"error", r>>}
                    /\ UNCHANGED engines
               ELSE /\ engines' = [engines EXCEPT ![e] = IndexAdd(@, docs)]
                    /\ reqs' = [reqs EXCEPT ![r].pc = "add_docs",
                            ![r].start_idx = Len(engines[e].documents)]
                    /\ UNCHANGED log
        /\ UNCHANGED <<wrote, disk_index, disk_docs>>
        /\ ServerFrame

\* add_documents lines 50-59 within the task; start_idx was read at line 46,
\* before the vectors were added
TaskAddDocs ==
    \E r \in Requests :
        /\ At(r, "add_docs")
        /\ LET e == GetSearchEngine(r)
               docs == Batch(reqs[r].doc_id, reqs[r].n, "ok", 1)
               done == StoreDocs(engines[e], docs, reqs[r].start_idx, 1)
           IN  /\ engines' = [engines EXCEPT ![e] = done.engine]
               /\ IF done.error = ""
                  THEN Goto(r, "save_index") /\ UNCHANGED log
                  ELSE Goto(r, "failed") /\ log' = log \cup {<<"error", r>>}
        /\ UNCHANGED <<wrote, disk_index, disk_docs>>
        /\ ServerFrame

\* save_index line 105 within the task
TaskSaveIndex ==
    \E r \in Requests :
        /\ At(r, "save_index")
        /\ disk_index' = WriteIndex(engines[GetSearchEngine(r)])
        /\ wrote' = <<r, wrote[2]>>
        /\ Goto(r, "save_docs")
        /\ UNCHANGED <<engines, log, disk_docs>>
        /\ ServerFrame

\* save_index lines 108-112 and the task's line 78
TaskSaveDocs ==
    \E r \in Requests :
        /\ At(r, "save_docs")
        /\ disk_docs' = DumpDocs(engines[GetSearchEngine(r)])
        /\ wrote' = <<wrote[1], r>>
        /\ log' = log \cup {<<"success", r>>}
        /\ Goto(r, "done")
        /\ UNCHANGED <<engines, disk_index>>
        /\ ServerFrame

\* search lines 72-79 within search_documents, top_k at its default
SearchIndex ==
    \E r \in Requests :
        /\ At(r, "search")
        /\ LET s == engines[GetSearchEngine(r)]
           IN  IF Len(s.documents) = 0
               THEN Goto(r, "done")
               ELSE reqs' = [reqs EXCEPT ![r].pc = "collect", ![r].labels =
                        IndexSearch(s.index, reqs[r].q,
                                    ClampTopK(s, DEFAULT_TOP_K))]
        /\ UNCHANGED <<engines, wrote, log, disk_index, disk_docs>>
        /\ ServerFrame

\* search lines 82-90; an IndexError is logged by search_documents, line 153
SearchCollect ==
    \E r \in Requests :
        /\ At(r, "collect")
        /\ LET e == GetSearchEngine(r)
               got == Collect(engines[e], reqs[r].q, reqs[r].labels, 1, <<>>)
           IN  /\ engines' = [engines EXCEPT ![e] = got.engine]
               /\ IF got.error = ""
                  THEN Goto(r, "done") /\ UNCHANGED log
                  ELSE Goto(r, "failed") /\ log' = log \cup {<<"error", r>>}
        /\ UNCHANGED <<wrote, disk_index, disk_docs>>
        /\ ServerFrame

NextServer ==
    \/ Arrive
    \/ OpenEngine
    \/ LoadDocs
    \/ TaskProcess
    \/ TaskAddIndex
    \/ TaskAddDocs
    \/ TaskSaveIndex
    \/ TaskSaveDocs
    \/ SearchIndex
    \/ SearchCollect

SpecServer == InitServer /\ [][NextServer]_vars

(***************************************************************************)
(* One ingestion task at a time, with the file system refusing a write:    *)
(* faiss.write_index or open/pickle.dump raises inside save_index, and     *)
(* process_document_task catches it and logs it (lines 79-80).             *)
(***************************************************************************)
\* a request arrives when no other is under way
ArriveAlone ==
    /\ \A o \in Requests : reqs[o].pc \in {"idle", "done", "failed"}
    /\ Arrive

\* save_index line 105 raises: nothing is written
TaskSaveIndexFails ==
    \E r \in Requests :
        /\ At(r, "save_index")
        /\ Goto(r, "failed")
        /\ log' = log \cup {<<"error", r>>}
        /\ UNCHANGED <<engines, wrote, disk_index, disk_docs>>
        /\ ServerFrame

\* save_index lines 108-112 raise after line 105 wrote the index file
TaskSaveDocsFails ==
    \E r \in Requests :
        /\ At(r, "save_docs")
        /\ Goto(r, "failed")
        /\ log' = log \cup {<<"error", r>>}
        /\ UNCHANGED <<engines, wrote, disk_index, disk_docs>>
        /\ ServerFrame

NextPipeline ==
    \/ ArriveAlone
    \/ OpenEngine
    \/ LoadDocs
    \/ TaskProcess
    \/ TaskAddIndex
    \/ TaskAddDocs
    \/ TaskSaveIndex
    \/ TaskSaveDocs
    \/ TaskSaveIndexFails
    \/ TaskSaveDocsFails
    \/ SearchIndex
    \/ SearchCollect

SpecPipeline == InitServer /\ [][NextPipeline]_vars

(***************************************************************************)
(* _chunk_text as a state machine.                                         *)
(***************************************************************************)
InitChunk ==
    /\ text \in SeqsUpTo(Alphabet, MaxTextLen)
    /\ chunk_size \in 1..MaxChunkSize
    /\ chunk_overlap \in 0..(chunk_size - 1)
    /\ chunks = <<>>
    /\ start = 0
    /\ spans = <<>>
    /\ cpc = "call"
    /\ documents = <<>>
    /\ StoreIdle
    /\ ScanIdle
    /\ ServerIdle

\* lines 165-170: the empty text returns [], any other enters the loop
ChunkTextEnter ==
    /\ cpc = "call"
    /\ cpc' = IF text = <<>> THEN "done" ELSE "loop"
    /\ start' = 0
    /\ chunks' = <<>>
    /\ UNCHANGED <<text, chunk_size, chunk_overlap, spans, documents>>
    /\ UNCHANGED <<storeVars, serverVars, scanVars>>

\* lines 172-202: one evaluation of the while condition and, if it holds,
\* one run of the body
ChunkTextIter ==
    /\ cpc = "loop"
    /\ Len(chunks) < MaxChunks
    /\ IF start < Len(text)
       THEN LET end == ChunkEnd(text, start, chunk_size)
                newStart == NextStart(end, chunk_overlap)
            IN  /\ chunks' = Append(chunks, Strip(Slice(text, start, end)))
                /\ spans' = Append(spans, <<start, end>>)
                /\ start' = newStart
                /\ cpc' = IF LoopBreaks(newStart, end) THEN "done" ELSE "loop"
       ELSE /\ cpc' = "done"
            /\ UNCHANGED <<chunks, spans, start>>
    /\ UNCHANGED <<text, chunk_size, chunk_overlap, documents>>
    /\ UNCHANGED <<storeVars, serverVars, scanVars>>

NextChunk == ChunkTextEnter \/ ChunkTextIter

SpecChunk == InitChunk /\ [][NextChunk]_vars

(***************************************************************************)
(* _chunk_text under the configuration of config.py, on texts of 2,500     *)
(* characters that hold no whitespace, so that no break point is found and *)
(* every chunk is cut at chunk_size.                                       *)
(***************************************************************************)
\* letters with a period at every p-th place
PlainText(p) == [i \in 1..2500 |-> IF i % p = 0 THEN "." ELSE "a"]

InitDefaults ==
    /\ text \in {PlainText(p) : p \in 1..20}
    /\ chunk_size = CHUNK_SIZE
    /\ chunk_overlap = CHUNK_OVERLAP
    /\ chunks = <<>>
    /\ start = 0
    /\ spans = <<>>
    /\ cpc = "call"
    /\ documents = <<>>
    /\ StoreIdle
    /\ ScanIdle
    /\ ServerIdle

SpecDefaults == InitDefaults /\ [][NextChunk]_vars

(***************************************************************************)
(* _chunk_text on texts long enough, and with chunks wide enough, for two  *)
(* kinds of break point to lie past the middle of a window that ends       *)
(* before the text does.  The texts begin with letters up to the middle of *)
(* the first window; every character from there on is any of the alphabet. *)
(***************************************************************************)
WindowTexts ==
    {[i \in 1..(MaxWindowSize \div 2) |-> "a"] \o t :
        t \in [1..MaxWindowFree -> Alphabet]}

InitWindows ==
    /\ text \in WindowTexts
    /\ chunk_size \in (MaxWindowSize - 1)..MaxWindowSize
    /\ chunk_overlap \in 0..1
    /\ chunks = <<>>
    /\ start = 0
    /\ spans = <<>>
    /\ cpc = "call"
    /\ documents = <<>>
    /\ StoreIdle
    /\ ScanIdle
    /\ ServerIdle

SpecWindows == InitWindows /\ [][NextChunk]_vars

(***************************************************************************)
(* One ingestion task from start to end (process_document_task, lines      *)
(* 58-80) with the chunking loop of process_document run step by step.     *)
(* Extraction, embedding and the file writes return, with a result or with *)
(* an exception; the task runs on a worker that is never cancelled, so a   *)
(* step that can be taken is taken in the end (weak fairness).  The loop   *)
(* of _chunk_text is taken in two steps per iteration, and of the chunks   *)
(* it appends the first MaxChunks are recorded: what the loop does next    *)
(* depends on the cursor alone.                                            *)
(***************************************************************************)
\* list.append as far as the list is recorded
Record(list, x) == IF Len(list) < MaxChunks THEN Append(list, x) ELSE list

\* lines 172-197: the while condition and, if it holds, the chunk appended
ChunkLoopBody ==
    /\ cpc = "loop"
    /\ IF start < Len(text)
       THEN LET end == ChunkEnd(text, start, chunk_size)
            IN  /\ chunks' = Record(chunks, Strip(Slice(text, start, end)))
                /\ spans' = Record(spans, <<start, end>>)
                /\ cpc' = "advance"
       ELSE /\ cpc' = "done"
            /\ UNCHANGED <<chunks, spans>>
    /\ UNCHANGED <<text, chunk_size, chunk_overlap, start, documents>>
    /\ UNCHANGED <<storeVars, serverVars, scanVars>>

\* lines 198-202: the cursor moved and the break test; end is the end of
\* the chunk just appended, which started at start
ChunkLoopAdvance ==
    /\ cpc = "advance"
    /\ LET end == ChunkEnd(text, start, chunk_size)
           newStart == NextStart(end, chunk_overlap)
       IN  /\ start' = newStart
           /\ cpc' = IF LoopBreaks(newStart, end) THEN "done" ELSE "loop"
    /\ UNCHANGED <<text, chunk_size, chunk_overlap, chunks, spans, documents>>
    /\ UNCHANGED <<storeVars, serverVars, scanVars>>

InitTask ==
    /\ text \in SeqsUpTo(Alphabet, MaxConfigTextLen)
    /\ chunk_size \in 1..MaxChunkSize
    /\ chunk_overlap \in 0..(chunk_size - 1)
    /\ chunks = <<>>
    /\ start = 0
    /\ spans = <<>>
    /\ cpc = "call"
    /\ documents = <<>>
    /\ StoreIdle
    /\ ScanIdle
    /\ \E d \in DocIds :
           reqs = [r \in Requests |->
                      IF r = 1
                      THEN [NoRequest EXCEPT !.kind = "upload", !.pc = "task",
                                             !.doc_id = d]
                      ELSE NoRequest]
    /\ engines = [e \in Requests |-> NewEngine(EMBEDDING_DIMENSION)]
    /\ wrote = <<-1, -1>>
    /\ log = {}

\* lines 66-73 once _chunk_text has returned: one dict per chunk, then
\* generate_embeddings, which returns or raises; add_documents returns at
\* once on an empty list (engine.py lines 39-40)
TaskChunked ==
    \E r \in Requests, ok \in BOOLEAN :
        /\ At(r, "task")
        /\ cpc = "done"
        /\ IF ok
           THEN /\ reqs' = [reqs EXCEPT
                       ![r].n = Len(chunks),
                       ![r].pc = IF chunks = <<>> THEN "save_index"
                                 ELSE "add_index"]
                /\ UNCHANGED log
           ELSE /\ Goto(r, "failed")
                /\ log' = log \cup {<<"error", r>>}
        /\ UNCHANGED <<engines, wrote, disk_index, disk_docs>>
        /\ ServerFrame

NextTask ==
    \/ ChunkTextEnter
    \/ ChunkLoopBody
    \/ ChunkLoopAdvance
    \/ TaskChunked
    \/ TaskAddIndex
    \/ TaskAddDocs
    \/ TaskSaveIndex
    \/ TaskSaveDocs
    \/ TaskSaveIndexFails
    \/ TaskSaveDocsFails

SpecTask == InitTask /\ [][NextTask]_vars /\ WF_vars(NextTask)

(***************************************************************************)
(* scan_ports, lines 17-34: the main thread submits one scan_port call per *)
(* port, the executor's workers run them, and the main thread takes the    *)
(* futures as they complete.                                               *)
(***************************************************************************)
InState(st) == {p \in Ports : futures[p].state = st}

ScanFrame == UNCHANGED <<chunkVars, storeVars, serverVars>>

InitScan ==
    /\ futures = [p \in Ports |-> Future("unsubmitted", None)]
    /\ open_ports = <<>>
    /\ attempts = [p \in Ports |-> <<>>]
    /\ spc = "submit"
    /\ StoreIdle
    /\ ChunkIdle
    /\ ServerIdle

\* line 24: executor.submit(scan_port, ip, port) for the next port of
\* range(1, 65536); after the last one the comprehension is done
Submit ==
    /\ spc = "submit"
    /\ LET port == CHOOSE p \in InState("unsubmitted") :
                       \A o \in InState("unsubmitted") : p <= o
       IN  /\ futures' = [futures EXCEPT ![port].state = "queued"]
           /\ spc' = IF InState("unsubmitted") = {port} THEN "collect"
                     ELSE "submit"
    /\ UNCHANGED <<open_ports, attempts>>
    /\ ScanFrame

\* a free worker takes the oldest call of the executor's queue
WorkerStart ==
    /\ InState("queued") # {}
    /\ Cardinality(InState("running")) < MaxWorkers
    /\ LET port == CHOOSE p \in InState("queued") :
                       \A o \in InState("queued") : p <= o
       IN  futures' = [futures EXCEPT ![port].state = "running"]
    /\ UNCHANGED <<open_ports, attempts, spc>>
    /\ ScanFrame

\* scan_port, lines 6-15, in a worker: the connect attempt and the return
WorkerFinish ==
    \E port \in InState("running"), outcome \in ConnectOutcomes :
        /\ futures' = [futures EXCEPT
               ![port] = Future("done", ScanPort(port, outcome))]
        /\ attempts' = [attempts EXCEPT ![port] = Append(@, outcome)]
        /\ UNCHANGED <<open_ports, spc>>
        /\ ScanFrame

\* lines 26-30: as_completed hands over a future that is done, any of them
AsCompleted ==
    \E port \in InState("done") :
        /\ spc = "collect"
        /\ futures' = [futures EXCEPT ![port].state = "yielded"]
        /\ open_ports' = IF Truthy(futures[port].result)
                         THEN Append(open_ports, futures[port].result[1])
                         ELSE open_ports
        /\ UNCHANGED <<attempts, spc>>
        /\ ScanFrame

\* as_completed is exhausted and the with block is left, lines 32-34
Finish ==
    /\ spc = "collect"
    /\ InState("yielded") = Ports
    /\ spc' = "finished"
    /\ UNCHANGED <<futures, open_ports, attempts>>
    /\ ScanFrame

NextScan ==
    \/ Submit
    \/ WorkerStart
    \/ WorkerFinish
    \/ AsCompleted
    \/ Finish

SpecScan == InitScan /\ [][NextScan]_vars

(***************************************************************************)
(* The DocumentProcessor as routes.py builds it (line 43): chunk_size and  *)
(* chunk_overlap are whatever integers the environment variables           *)
(* CHUNK_SIZE and CHUNK_OVERLAP hold (config.py lines 27-28).              *)
(***************************************************************************)
\* __init__, lines 35-36: "" when the processor is built, else the error
ProcessorInitError(size, overlap) == ""

InitConfigured ==
    /\ text \in SeqsUpTo(Alphabet, MaxConfigTextLen)
    /\ chunk_size \in (-1)..MaxChunkSize
    /\ chunk_overlap \in (-1)..MaxChunkSize
    /\ ProcessorInitError(chunk_size, chunk_overlap) = ""
    /\ chunks = <<>>
    /\ start = 0
    /\ spans = <<>>
    /\ cpc = "call"
    /\ documents = <<>>
    /\ StoreIdle
    /\ ScanIdle
    /\ ServerIdle

SpecConfigured == InitConfigured /\ [][NextChunk]_vars

(***************************************************************************)
(* process_document, lines 63-81: the list _chunk_text returned is turned  *)
(* into one dict per chunk.  The loop reads nothing but that list, the     *)
(* document id and the file's metadata, so the list is the input here.     *)
(***************************************************************************)
\* the chunks a list may hold: stripped text, the empty string included
ChunkTexts == SeqsUpTo({"a", "."}, 1)

\* enumerate(chunks): the pairs (i, chunk), i counting from 0
EnumerateFromOne(cs) == [k \in 1..Len(cs) |-> <<k, cs[k]>>]
Enumerate(cs) == [k \in 1..Len(cs) |-> <<k - 1, cs[k]>>]

\* lines 69-79: the dict appended for the pair (i, chunk); source, title,
\* file_type and the file's metadata are the same for every chunk
StructuredDocument(pair, doc_id) ==
    [text |-> pair[2],
     metadata |-> [doc_id |-> doc_id, chunk_id |-> pair[1]]]

InitProcess ==
    /\ chunks \in SeqsUpTo(ChunkTexts, MaxDocChunks)
    /\ cpc = "done"
    /\ documents = <<>>
    /\ text = <<>>
    /\ chunk_size = 1
    /\ chunk_overlap = 0
    /\ start = 0
    /\ spans = <<>>
    /\ StoreIdle
    /\ ScanIdle
    /\ ServerIdle

\* lines 66-81
ProcessDocumentBuild ==
    /\ cpc = "done"
    /\ \E doc_id \in DocIds :
           documents' =
               [k \in 1..Len(chunks) |->
                   StructuredDocument(Enumerate(chunks)[k], doc_id)]
    /\ cpc' = "returned"
    /\ UNCHANGED <<text, chunk_size, chunk_overlap, chunks, start, spans>>
    /\ UNCHANGED <<storeVars, serverVars, scanVars>>

SpecProcess == InitProcess /\ [][ProcessDocumentBuild]_vars

(***************************************************************************)
(* C1.  For every non-empty text and valid configuration _chunk_text       *)
(* terminates with at least one chunk.  The loop body is a function of the *)
(* cursor alone (text and configuration are fixed during a call), so a     *)
(* terminating run never begins an iteration at a cursor an earlier        *)
(* iteration began at; and a finished call on a non-empty text holds a     *)
(* chunk.                                                                  *)
(***************************************************************************)
C1_ChunkTerminates ==
    /\ (cpc = "loop" /\ start < Len(text)) =>
           \A i \in 1..Len(spans) : spans[i][1] # start
    /\ (cpc = "done" /\ text # <<>>) => Len(chunks) >= 1

(***************************************************************************)
(* C2.  After any sequence of add_documents calls, re-ingestion of the     *)
(* same (doc_id, chunk_id) pairs included, the number of records, the      *)
(* number of entries of doc_ids_to_indices and the number of vectors in    *)
(* the index are equal.                                                    *)
(***************************************************************************)
C2_CountsAgree ==
    /\ Len(se.documents) = Cardinality(DOMAIN se.doc_ids_to_indices)
    /\ Len(se.documents) = Len(se.index.xb)

(***************************************************************************)
(* C3.  In every state reached through construction, add_documents,        *)
(* search, save_index and load_index the record list and the index have    *)
(* the same length, and the record at position i is the one supplied with  *)
(* the vector at position i (the vector is the embedding of its text).     *)
(***************************************************************************)
C3_CoIndexed ==
    /\ Len(se.documents) = Len(se.index.xb)
    /\ \A i \in 1..Len(se.documents) :
           i <= Len(se.index.xb) /\ se.index.xb[i] = Encode(se.documents[i].text)

(***************************************************************************)
(* C4.  An add_documents call that fails leaves the index, the record list *)
(* and the identity mapping exactly as they were before the call.          *)
(***************************************************************************)
C4_FailedAddChangesNothing ==
    [][(call'.op = "add_documents" /\ call'.error # "") => se' = se]_vars

(***************************************************************************)
(* C5.  No request that loads the two files gets the index file of one     *)
(* save together with the documents file of another save.                  *)
(***************************************************************************)
C5_NoTornPair ==
    \A r \in Requests :
        (reqs[r].saw[1] # -1 /\ reqs[r].saw[2] # -1) =>
            reqs[r].saw[1] = reqs[r].saw[2]

(***************************************************************************)
(* C6.  On one SearchEngine object no two requests are inside              *)
(* add_documents, save_index, load_index or search at the same time; in    *)
(* particular no search runs on an engine whose add_documents has appended *)
(* the vectors and not yet the records.                                    *)
(***************************************************************************)
InEngineCall(r) == reqs[r].pc \in {"load_docs", "add_docs", "save_docs", "collect"}

SameSearches(s, t) ==
    \A q \in Queries, top_k \in TopKs :
        /\ Search(s, q, top_k).results = Search(t, q, top_k).results
        /\ Search(s, q, top_k).error = Search(t, q, top_k).error

C9_EmptyStoreSearch ==
    Len(se.documents) = 0 =>
        /\ \A q \in Queries, top_k \in TopKs :
               Search(se, q, top_k) = [engine |-> se, results |-> <<>>, error |-> ""]
        /\ call.op = "search" => call.error = ""

\* a search has returned on an engine built with no files
C9_Witness ==
    /\ call = Called("search", "")
    /\ Len(se.documents) = 0
    /\ ~BothExist(disk_index, disk_docs)

(***************************************************************************)
(* C10.  After a document of 3 chunks and then a document of 2 chunks were *)
(* added to an empty store, search with top_k = 10 returns exactly 5       *)
(* results, each with a score in (0, 1].                                   *)
(***************************************************************************)
ThreeThenTwo ==
    /\ Len(se.documents) = 5
    /\ \E d1, d2 \in DocIds :
           [i \in 1..5 |-> se.documents[i].text] =
               <<<<d1, 0>>, <<d1, 1>>, <<d1, 2>>, <<d2, 0>>, <<d2, 1>>>>

C10_FiveResults ==
    ThreeThenTwo =>
        \A q \in Queries :
            Len(q) = EMBEDDING_DIMENSION =>
                LET r == Search(se, q, 10)
                IN  /\ r.error = ""
                    /\ Len(r.results) = 5
                    /\ \A i \in 1..Len(r.results) :
                           /\ r.results[i].score[2] > 0
                           /\ r.results[i].score[1] > 0
                           /\ r.results[i].score[1] <= r.results[i].score[2]

\* the two documents are in, and a search has scored all five records
C10_Witness ==
    /\ ThreeThenTwo
    /\ call = Called("search", "")
    /\ \A i \in 1..5 : "score" \in DOMAIN se.documents[i]

(***************************************************************************)
(* C11.  The spans of a finished _chunk_text call on a non-empty text      *)
(* cover the text: the first starts at 0, the last ends at the length of   *)
(* the text, and every span after the first starts exactly chunk_overlap   *)
(* characters before the end of the span before it.                        *)
(***************************************************************************)
C11_SpansCoverText ==
    (cpc = "done" /\ text # <<>>) =>
        /\ Len(spans) >= 1
        /\ spans[1][1] = 0
        /\ spans[Len(spans)][2] = Len(text)
        /\ \A i \in 2..Len(spans) :
               spans[i][1] = spans[i - 1][2] - chunk_overlap

(***************************************************************************)
(* C12.  A non-empty text shorter than chunk_size yields exactly one chunk *)
(* under every valid overlap; and a text without break characters whose    *)
(* length is a multiple of chunk_size - chunk_overlap yields exactly as    *)
(* many chunks as spans are needed to cover it, neither one more nor one   *)
(* fewer.                                                                  *)
(***************************************************************************)
\* the least number of spans of the given size, each starting overlap
\* before the end of the one before, that reach the end of len characters
SpansNeeded(len, size, overlap) ==
    CHOOSE n \in 1..(len + 1) :
        /\ size + (n - 1) * (size - overlap) >= len
        /\ \A m \in 1..(n - 1) : size + (m - 1) * (size - overlap) < len

NoBreaks(t) == \A i \in 1..Len(t) : t[i] \notin Whitespace

C12_BoundaryCounts ==
    /\ (text # <<>> /\ Len(text) < chunk_size) =>
           /\ Len(chunks) <= 1
           /\ cpc = "done" => Len(chunks) = 1
    /\ (text # <<>> /\ NoBreaks(text)
            /\ Len(text) % (chunk_size - chunk_overlap) = 0) =>
           LET needed == SpansNeeded(Len(text), chunk_size, chunk_overlap)
           IN  /\ Len(chunks) <= needed
               /\ cpc = "done" => Len(chunks) = needed

(***************************************************************************)
(* C13.  A text of 2,500 characters without break points, chunked with     *)
(* chunk_size 1000 and chunk_overlap 200, yields 3 or 4 chunks, each of at *)
(* most 1000 characters, each after the first starting at most 200         *)
(* characters before the end of the one before.                            *)
(***************************************************************************)
C13_DefaultsScenario ==
    (Len(text) = 2500 /\ NoBreaks(text)
        /\ chunk_size = CHUNK_SIZE /\ chunk_overlap = CHUNK_OVERLAP) =>
        /\ Len(chunks) <= 4
        /\ cpc = "done" => Len(chunks) >= 3
        /\ \A i \in 1..Len(chunks) : Len(chunks[i]) <= CHUNK_SIZE
        /\ \A i \in 2..Len(spans) :
               spans[i][1] >= spans[i - 1][2] - CHUNK_OVERLAP

(***************************************************************************)
(* C14.  When process_document returns n dicts for a document, their       *)
(* chunk_id values are 0, 1, ..., n - 1 in the order of the list, one per  *)
(* chunk: no gap and no repeat.                                            *)
(***************************************************************************)
C14_ChunkIdsCountUp ==
    cpc = "returned" =>
        /\ Len(documents) = Len(chunks)
        /\ \A k \in 1..Len(documents) :
               /\ documents[k].metadata.chunk_id = k - 1
               /\ documents[k].text = chunks[k]

\* a document of three chunks, two of them with the same text, was built
C14_Witness ==
    /\ cpc = "returned"
    /\ Len(documents) = 3
    /\ documents[1].text = documents[3].text

(***************************************************************************)
(* C15.  When an upload's task fails at any step after extraction          *)
(* (chunking, embedding, add_documents, save_index, a failure between the  *)
(* two writes of save_index included), the failure is logged, the task has *)
(* written neither file, and its engine holds the records it held before   *)
(* the add.                                                                *)
(***************************************************************************)
C15_FailedTaskLeavesStore ==
    \A r \in Requests :
        (reqs[r].kind = "upload" /\ reqs[r].pc = "failed") =>
            /\ <<"error", r>> \in log
            /\ wrote[1] # r
            /\ wrote[2] # r
            /\ reqs[r].start_idx # -1 =>
                   Len(engines[GetSearchEngine(r)].documents) = reqs[r].start_idx

(***************************************************************************)
(* C16.  Constructing a SearchEngine, or calling load_index, while the     *)
(* index file, the documents file or both are absent raises nothing and    *)
(* gives an empty store: a fresh index of the configured dimension with no *)
(* vectors, no records and an empty identity mapping.                      *)
(***************************************************************************)
C16_AbsentFilesGiveEmptyStore ==
    (call.op \in {"init", "load_index"}
        /\ ~BothExist(disk_index, disk_docs)) =>
        /\ call.error = ""
        /\ se = NewEngine(EMBEDDING_DIMENSION)

(***************************************************************************)
(* C17.  load_index (called directly or by the constructor) on a pair of   *)
(* files whose index holds a different number of vectors than the          *)
(* documents file holds records reports an error, and a load that reports  *)
(* none leaves an engine whose vector count equals its record count.       *)
(***************************************************************************)
C17_MismatchedPairRejected ==
    (call.op \in {"load_index", "init"}
        /\ BothExist(disk_index, disk_docs)) =>
        /\ Len(disk_index[1].xb) # Len(disk_docs[1].documents) =>
               call.error # ""
        /\ call.error = "" => Len(se.index.xb) = Len(se.documents)

(***************************************************************************)
(* C18.  In every store state, add_documents with a batch that holds a     *)
(* vector whose length is not the store's dimension, at any position of    *)
(* the batch, raises, and the index, the record list and the identity      *)
(* mapping are what they were before the call.                             *)
(***************************************************************************)
C18_WrongDimensionFailsFast ==
    \A d \in DocIds, n \in 1..MaxBatch, bad \in 1..MaxBatch :
        bad <= n =>
            LET r == AddDocuments(se, Batch(d, n, "long_embedding", bad))
            IN  /\ r.error \in {"ValueError", "AssertionError"}
                /\ r.engine = se

\* such a call has just failed on a store that holds records
C18_Witness ==
    /\ call.op = "add_documents"
    /\ call.error \in {"ValueError", "AssertionError"}
    /\ Len(se.documents) > 0
    /\ Len(se.documents) = Len(se.index.xb)

(***************************************************************************)
(* C19.  _chunk_text only ever runs under a configuration with             *)
(* chunk_size > 0 and 0 <= chunk_overlap < chunk_size: any other is        *)
(* rejected when the DocumentProcessor is built.                           *)
(***************************************************************************)
C19_DegenerateConfigRejected ==
    cpc \in {"loop", "done"} =>
        /\ chunk_size > 0
        /\ chunk_overlap >= 0
        /\ chunk_overlap < chunk_size

(***************************************************************************)
(* C20.  For every store state and every limit, list_documents returns one *)
(* row per distinct doc_id of the record list, and the chunk count of a    *)
(* row is the number of records of the store with that doc_id.             *)
(***************************************************************************)
RecordsOf(doc_id) ==
    {j \in 1..Len(se.documents) : se.documents[j].metadata.doc_id = doc_id}

C20_ListingCountsChunks ==
    \A limit \in Limits :
        LET rows == ListDocuments(se, limit)
        IN  /\ {rows[k].doc_id : k \in 1..Len(rows)} =
                   {se.documents[j].metadata.doc_id : j \in 1..Len(se.documents)}
            /\ \A k, l \in 1..Len(rows) :
                   rows[k].doc_id = rows[l].doc_id => k = l
            /\ \A k \in 1..Len(rows) :
                   rows[k].chunks = Cardinality(RecordsOf(rows[k].doc_id))

(***************************************************************************)
(* C21.  Every chunk _chunk_text appends is a non-empty string (it is      *)
(* stripped before it is appended), whatever the text: texts of whitespace *)
(* only and texts with a whitespace-only span of chunk length included.    *)
(***************************************************************************)
C21_ChunksNonEmpty ==
    \A i \in 1..Len(chunks) : chunks[i] # <<>>

(***************************************************************************)
(* C22.  In every reachable store state every key of doc_ids_to_indices    *)
(* maps to a position of the record list, and the record at that position  *)
(* carries the doc_id and chunk_id the key was formatted from.             *)
(***************************************************************************)
C22_MappingPointsAtRecord ==
    \A key \in DOMAIN se.doc_ids_to_indices :
        LET pos == se.doc_ids_to_indices[key]
        IN  /\ pos \in 0..(Len(se.documents) - 1)
            /\ HasIds(se.documents[pos + 1])
            /\ UniqueId(se.documents[pos + 1].metadata.doc_id,
                        se.documents[pos + 1].metadata.chunk_id) = key

\* a chunk was added twice, so its key points at the later of two records,
\* in a store where an earlier add failed on a record without doc_id
C22_Witness ==
    /\ \E k \in 1..Len(se.documents) : ~HasIds(se.documents[k])
    /\ \E i, j \in 1..Len(se.documents) :
           /\ i < j
           /\ HasIds(se.documents[i]) /\ HasIds(se.documents[j])
           /\ se.documents[i].metadata = se.documents[j].metadata
           /\ se.doc_ids_to_indices[UniqueId(se.documents[j].metadata.doc_id,
                                    se.documents[j].metadata.chunk_id)] = j - 1

(***************************************************************************)
(* C23.  For every chunk that does not end at the end of the text, the end *)
(* lies strictly past start + size/2 and at most at start + size; it is    *)
(* just after the last paragraph break of the window when that break lies  *)
(* strictly past start + size/2, else just after the last line break, else *)
(* just after the last '. ', else just after the last space, each under    *)
(* the same condition, and else exactly start + size.                      *)
(***************************************************************************)
\* the break points of the window [s, s + chunk_size) in order of
\* preference, each with the length of its delimiter
BreaksOf(s) ==
    <<<<RFind(text, <<NL, NL>>, s, s + chunk_size), 2>>,
      <<RFind(text, <<NL>>, s, s + chunk_size), 1>>,
      <<RFind(text, <<".", " ">>, s, s + chunk_size), 2>>,
      <<RFind(text, <<" ">>, s, s + chunk_size), 1>>>>

\* strictly past start + size/2, the division being exact
PastMiddle(p, s) == 2 * p > 2 * s + chunk_size

C23_BoundaryChoice ==
    \A i \in 1..Len(spans) :
        LET s == spans[i][1]
            e == spans[i][2]
            b == BreaksOf(s)
            taken == {k \in 1..4 : PastMiddle(b[k][1], s)}
        IN  e # Len(text) =>
                /\ 2 * e > 2 * s + chunk_size
                /\ e <= s + chunk_size
                /\ IF taken = {} THEN e = s + chunk_size
                   ELSE LET k == CHOOSE k \in taken : \A l \in taken : k <= l
                        IN  e = b[k][1] + b[k][2]

\* a first chunk that ends just after a paragraph break past the middle of
\* its window, although a line break lies later in the window
C23_Witness ==
    /\ Len(spans) >= 1
    /\ spans[1][2] # Len(text)
    /\ PastMiddle(BreaksOf(0)[1][1], 0)
    /\ spans[1][2] = BreaksOf(0)[1][1] + 2
    /\ BreaksOf(0)[2][1] > BreaksOf(0)[1][1] + 1

(***************************************************************************)
(* C24.  search is read-only: a search call leaves the index, the record   *)
(* list with the content of every record, and the identity mapping as they *)
(* were.                                                                   *)
(***************************************************************************)
C24_SearchReadOnly ==
    [][call'.op = "search" => se' = se]_vars

(***************************************************************************)
(* C25.  Once the ingestion tasks of the accepted uploads have completed   *)
(* without error, in whatever interleaving, the files hold the chunks of   *)
(* every one of them: at least as many records and vectors as those        *)
(* uploads had chunks.                                                     *)
(***************************************************************************)
CompletedChunks ==
    SumTo([r \in Requests |->
              IF reqs[r].kind = "upload" /\ reqs[r].pc = "done"
              THEN reqs[r].n ELSE 0],
          MaxRequests)

C25_BothUploadsPersisted ==
    (\A r \in Requests : reqs[r].pc \in {"idle", "done", "failed"}) =>
        (CompletedChunks > 0 =>
            /\ BothExist(disk_index, disk_docs)
            /\ Len(disk_docs[1].documents) >= CompletedChunks
            /\ Len(disk_index[1].xb) >= CompletedChunks)

(***************************************************************************)
(* C26.  Every ingestion task that was started eventually is in one of its *)
(* two final states: processed successfully (added and saved) or failed    *)
(* (error logged).                                                         *)
(***************************************************************************)
C26_TaskEventuallyEnds ==
    \A r \in Requests :
        (reqs[r].kind = "upload") ~>
            \/ reqs[r].pc = "done" /\ <<"success", r>> \in log
            \/ reqs[r].pc = "failed" /\ <<"error", r>> \in log

(***************************************************************************)
(* C27.  Within one run of _chunk_text under a valid configuration the     *)
(* cursor strictly increases from one loop iteration to the next: an       *)
(* iteration after which the loop goes on has moved start forward.         *)
(***************************************************************************)
C27_CursorAdvances ==
    [][(cpc = "loop" /\ cpc' = "loop") => start' > start]_vars

(***************************************************************************)
(* C28.  scan_ports probes every port exactly once, and when it has        *)
(* finished open_ports holds exactly the ports whose connect attempt       *)
(* returned 0, each once, whatever the order in which the probes           *)
(* completed.                                                              *)
(***************************************************************************)
C28_EveryPortOnce ==
    /\ \A p \in Ports : Len(attempts[p]) <= 1
    /\ (spc = "finished" /\ InState("yielded") = Ports) =>
           /\ \A p \in Ports : Len(attempts[p]) = 1
           /\ {open_ports[i] : i \in 1..Len(open_ports)} =
                  {p \in Ports : attempts[p] = <<<<"returned", 0>>>>}
           /\ \A i, j \in 1..Len(open_ports) :
                  open_ports[i] = open_ports[j] => i = j

\* a finished scan that found two open ports, the higher one first, and a
\* port that refused
C28_Witness ==
    /\ spc = "finished"
    /\ Len(open_ports) = 2
    /\ open_ports[1] > open_ports[2]
    /\ \E p \in Ports : attempts[p] = <<<<"returned", 111>>>>

====
